---- MODULE Spec2Model ----
(***************************************************************************)
(* LayerFieldFeatureWidget of qgis-custom-gui.py: a modal dialog with      *)
(* three cascading selectors (layer, field, attribute values).             *)
(*                                                                         *)
(* Strings are sequences of one-character strings, so that str.lower(),    *)
(* the `in` substring test, == and sorting are computed, not assumed.      *)
(* Layers are vector or raster (the two kinds the code distinguishes).     *)
(*                                                                         *)
(* The module is run where the names it does not import (QEvent, QVariant, *)
(* the Qgs* classes) resolve, as in the QGIS Python console.  The host     *)
(* widgets emit layerChanged and fieldChanged when the user activates an   *)
(* entry; setCurrentIndex() and setFields() called by the code emit        *)
(* neither, so no handler runs nested inside another.  layer_matches and   *)
(* field_matches are mappings: the code calls .keys() on them.             *)
(***************************************************************************)
EXTENDS Integers, Sequences, FiniteSets, TLC

(* ------------------------------ bounds -------------------------------- *)

\* Largest number of keys in the layer_matches mapping.
MaxNameKeys == 6

\* Largest number of keys in the field_matches mapping.
MaxFieldKeys == 2

\* Largest geometry code (QgsWkbTypes.Type) passed as geometry_type.
MaxGeom == 2

(* ------------------------------ strings ------------------------------- *)

\* str.lower() on one character.
LowerChar(c) ==
  CASE c = "A" -> "a" [] c = "B" -> "b" [] c = "C" -> "c" [] c = "D" -> "d"
    [] c = "E" -> "e" [] c = "I" -> "i" [] c = "N" -> "n" [] c = "O" -> "o"
    [] c = "R" -> "r" [] c = "S" -> "s" [] c = "T" -> "t" [] c = "V" -> "v"
    [] OTHER -> c

\* str.lower()
Lower(s) == [i \in 1..Len(s) |-> LowerChar(s[i])]

\* Python's `key in name` on strings: key is a contiguous substring of name.
Contains(name, key) ==
  \E i \in 1..(Len(name) + 1) :
    /\ i + Len(key) - 1 <= Len(name)
    /\ SubSeq(name, i, i + Len(key) - 1) = key

(* ------------------------- the host project --------------------------- *)

\* The layers the host project may hold.  kind is the layer's Python type
\* (QgsVectorLayer or QgsRasterLayer), wkb its wkbType(), fields its
\* fields().toList() as [name, type] records, features its getFeatures(),
\* each feature the tuple of its attributes in field order (an integer for
\* types 1, 2, 4, 6 and 16, a string for 10 and 12, <<year, month, day>>
\* for 14).
LayerData ==
  [ L1 |-> [ kind |-> "vector", wkb |-> 1, name |-> <<"A", "b">>,
             fields |-> << [name |-> <<"i", "d">>, type |-> 2],
                           [name |-> <<"N", "a">>, type |-> 10],
                           [name |-> <<"o", "n">>, type |-> 1],
                           [name |-> <<"l", "e", "n">>, type |-> 6] >>,
             features |-> << <<10, <<"b">>, 1, 2>>,
                             <<9, <<"a">>, 0, 2>> >> ],
    L2 |-> [ kind |-> "vector", wkb |-> 0, name |-> <<"b">>,
             fields |-> << [name |-> <<"n", "a">>, type |-> 10],
                           [name |-> <<"d">>, type |-> 14],
                           [name |-> <<"t", "s">>, type |-> 16] >>,
             features |-> << << <<"x">>, <<2023, 10, 5>>, 7 >>,
                             << <<"B">>, <<2023, 9, 5>>, 7 >> >> ],
    L3 |-> [ kind |-> "raster", wkb |-> 0, name |-> <<"a", "B">>,
             fields |-> << >>, features |-> << >> ],
    L4 |-> [ kind |-> "vector", wkb |-> 2, name |-> <<"c">>,
             fields |-> << [name |-> <<"i", "d">>, type |-> 4],
                           [name |-> <<"b", "s">>, type |-> 12] >>,
             features |-> << >> ] ]

LayerIds == DOMAIN LayerData

\* The placeholder entry of the layer selector (index 0, currentLayer() is None).
NoLayer == "None"

\* The empty entry of the field selector (currentField() is "").
NoField == << >>

(* --------------------- constructor parameters ------------------------- *)

\* geometry_type left at its default, set(): a value no wkbType() equals.
GeomUnset == -1

\* layer_type left at its default, set(): len() is 0, as for "".
TypeUnset == << >>

\* Spellings of the two layer-type tags filter_layer accepts.
LayerTypeTags == { <<"v", "e", "c", "t", "o", "r">>,
                   <<"R", "a", "s", "t", "e", "r">> }

\* Keys a layer_matches mapping may hold.
NameKeyPool == { <<"a">>, <<"B">>, <<"a", "b">>, <<"b", "a">>, <<"C">>,
                 <<"d">>, <<"x">>, <<"y">> }

\* Keys a field_matches mapping may hold.
FieldKeyPool == { <<"I", "D">>, <<"n", "a">>, <<"n">>, <<"o", "n">>,
                  <<"t", "s">>, <<"d">>, <<"l", "e", "n">> }

\* field_matches left at its default, None.
FieldsUnset == [none |-> TRUE, keys |-> << >>]

VARIABLES
  project,               \* QgsProject.instance().mapLayers().values()
  layer_matches,         \* self.layer_matches: the keys of the mapping
  field_matches,         \* self.field_matches: None, or the mapping's keys in order
  layer_type,            \* self.layer_type
  geometry_type,         \* self.geometry_type
  inverted_layer_model,  \* self.inverted_layer_model
  layer_wdgt,            \* layer selector: the current layer, or NoLayer
  field_fields,          \* field selector: its fields()
  field_cur,             \* field selector: currentField(), or NoField
  feature_items,         \* value list: its items, in order
  feature_checked,       \* value list: positions of the checked items
  selection_button,      \* Yes to all / No to all enabled
  ok_button,             \* OK enabled
  result,                \* "New", "Open", "Accepted", "Rejected"
  emptied,               \* host: the layers whose features were all deleted
  running,               \* the handlers executing now, innermost last
  pending                \* slots of the emitted signal still to be called

vars == << project, layer_matches, field_matches, layer_type, geometry_type,
           inverted_layer_model, layer_wdgt, field_fields, field_cur,
           feature_items, feature_checked, selection_button, ok_button,
           result, emptied, running, pending >>

\* What no handler of the dialog writes: its arguments and the host's data.
config == << project, layer_matches, field_matches, layer_type, geometry_type,
            emptied >>

\* list(layer.getFeatures()) as the host holds it now.
features_of(l) == IF l \in emptied THEN << >> ELSE LayerData[l].features

(* -------------------------- layer filtering --------------------------- *)

get_project_layers == project

\* The Python type of the empty layer filter_layer() builds for a tag.
filter_layer(lt) ==
  IF Lower(lt) = <<"v", "e", "c", "t", "o", "r">> THEN "vector" ELSE "raster"

\* A variant that forgets .lower(): the test is case-sensitive.
NameMatchCaseSensitive(l, key) == Contains(LayerData[l].name, key)

\* key.lower() in layer.name().lower()
NameMatch(l, key) == Contains(Lower(LayerData[l].name), Lower(key))

\* A variant that takes 0, not set(), for the default geometry_type.
NoFilterZeroDefault(lt, gt, lm) == Len(lt) = Cardinality(lm) /\ gt = 0

\* The "no filter was supplied" test of generate_layer_model:
\* len(layer_type) == len(layer_matches) and geometry_type == set().
NoFilter(lt, gt, lm) == Len(lt) = Cardinality(lm) /\ gt = GeomUnset

\* generate_layer_model: the layers to keep out of the layer selector.
generate_layer_model(layers, lt, gt, lm) ==
  LET type_layers0 ==
        IF Len(lt) # 0
          THEN {l \in layers : LayerData[l].kind = filter_layer(lt)}
          ELSE {}
      geom_type_layers0 ==
        IF gt # 0
          THEN {l \in layers : LayerData[l].kind # "raster"
                               /\ LayerData[l].wkb = gt}
          ELSE {}
      name_layers0 ==
        IF Cardinality(lm) # 0
          THEN {l \in layers : \E key \in lm : NameMatch(l, key)}
          ELSE {}
      none == NoFilter(lt, gt, lm)
      type_layers == IF none THEN layers ELSE type_layers0
      geom_type_layers == IF none THEN layers ELSE geom_type_layers0
      name_layers == IF none THEN layers ELSE name_layers0
      allowed_layers ==
        layers \cap (type_layers \cup geom_type_layers \cup name_layers)
  IN layers \ allowed_layers

(* --------------------------- field population ------------------------- *)

\* A variant with one more branch, for QVariant.DateTime (16).
SupportedTypeWithDateTime(t) == t \in {2, 4, 6, 10, 14, 16}

\* The field types generate_field_model has a branch for.
SupportedType(t) == t \in {2, 4, 6, 10, 14}

\* The QVariant type the branch re-tags the field with.
Retag(t) == IF t = 4 THEN 2 ELSE t

\* A variant that tests `in`, as the layer-name filter does.
FieldKeyMatchSubstring(key, name) == Contains(Lower(name), Lower(key))

\* key.lower() == field.name().lower()
FieldKeyMatch(key, name) == Lower(key) = Lower(name)

\* QgsFields.append: refused when a field of that name is already there.
AppendField(fs, f) ==
  IF \E i \in 1..Len(fs) : fs[i].name = f.name THEN fs ELSE Append(fs, f)

\* `for feature in features_list:` around the type branches: one append per
\* feature of the layer (temp_features is a local that is thrown away).
RECURSIVE PerFeature(_, _, _)
PerFeature(fs, field, n) ==
  IF n = 0 THEN fs
  ELSE LET before == PerFeature(fs, field, n - 1)
       IN IF SupportedType(field.type)
            THEN AppendField(before, [name |-> field.name,
                                      type |-> Retag(field.type)])
            ELSE before

\* `for field in fields_list:` of the unfiltered branch (i fields done).
RECURSIVE AllFields(_, _, _)
AllFields(fs, l, i) ==
  IF i = 0 THEN fs
  ELSE PerFeature(AllFields(fs, l, i - 1), LayerData[l].fields[i],
                  Len(features_of(l)))

\* `for field in fields_list:` under one key of field_matches.
RECURSIVE KeyFields(_, _, _, _)
KeyFields(fs, l, key, i) ==
  IF i = 0 THEN fs
  ELSE LET before == KeyFields(fs, l, key, i - 1)
           field == LayerData[l].fields[i]
       IN IF FieldKeyMatch(key, field.name)
            THEN PerFeature(before, field, Len(features_of(l)))
            ELSE before

\* `for key in self.field_matches.keys():` (k keys done).
RECURSIVE MatchedFields(_, _, _, _)
MatchedFields(fs, l, keys, k) ==
  IF k = 0 THEN fs
  ELSE KeyFields(MatchedFields(fs, l, keys, k - 1), l, keys[k],
                 Len(LayerData[l].fields))

\* generate_field_model(layer): the fields handed to the field selector.
generate_field_model(l, fm) ==
  IF LayerData[l].kind # "raster"
    THEN IF ~fm.none
           THEN MatchedFields(<< >>, l, fm.keys, Len(fm.keys))
           ELSE AllFields(<< >>, l, Len(LayerData[l].fields))
    ELSE << >>

(* ------------------------ attribute-value list ------------------------ *)

\* Characters in code-point order, for comparing strings as Python does.
CharOrder == << "-", ".", "0", "1", "2", "3", "4", "5", "6", "7", "8", "9",
                "A", "B", "C", "N", "a", "b", "c", "d", "x" >>

CharCode(c) == CHOOSE i \in 1..Len(CharOrder) : CharOrder[i] = c

\* str < str
RECURSIVE StrLess(_, _)
StrLess(a, b) ==
  IF Len(b) = 0 THEN FALSE
  ELSE IF Len(a) = 0 THEN TRUE
  ELSE IF a[1] = b[1] THEN StrLess(Tail(a), Tail(b))
  ELSE CharCode(a[1]) < CharCode(b[1])

Digit(d) == CharOrder[d + 3]

\* str() of a non-negative int.
RECURSIVE DecStr(_)
DecStr(n) == IF n < 10 THEN << Digit(n) >> ELSE Append(DecStr(n \div 10), Digit(n % 10))

\* Zero-padded decimal of width w.
RECURSIVE Pad(_, _)
Pad(s, w) == IF Len(s) >= w THEN s ELSE Pad(<< "0" >> \o s, w)

\* QDate.toString(Qt.ISODate): yyyy-MM-dd
IsoDate(d) ==
  Pad(DecStr(d[1]), 4) \o << "-" >> \o Pad(DecStr(d[2]), 2) \o << "-" >>
    \o Pad(DecStr(d[3]), 2)

\* list.sort() of a list of strings holding the elements of S.
RECURSIVE SortStrs(_)
SortStrs(S) ==
  IF S = {} THEN << >>
  ELSE LET m == CHOOSE x \in S : \A y \in S \ {x} : StrLess(x, y)
       IN << m >> \o SortStrs(S \ {m})

\* Numbers sorted as their decimal renderings would be.
RECURSIVE SortIntsAsText(_)
SortIntsAsText(S) ==
  IF S = {} THEN << >>
  ELSE LET m == CHOOSE x \in S :
                  \A y \in S \ {x} : StrLess(DecStr(x), DecStr(y))
       IN << m >> \o SortIntsAsText(S \ {m})

\* list.sort() of a list of numbers holding the elements of S.
RECURSIVE SortInts(_)
SortInts(S) ==
  IF S = {} THEN << >>
  ELSE LET m == CHOOSE x \in S : \A y \in S \ {x} : x < y
       IN << m >> \o SortInts(S \ {m})

\* layer.fields().indexFromName(name): 0 stands for -1 (not found).
indexFromName(fields, name) ==
  IF \E i \in 1..Len(fields) : fields[i].name = name
    THEN CHOOSE i \in 1..Len(fields) : fields[i].name = name
    ELSE 0

\* layer.uniqueValues(field_index); an index the layer does not have (0
\* here, -1 in the code) gives the empty set.
uniqueValues(l, field_index) ==
  IF field_index = 0
    THEN {}
    ELSE { features_of(l)[k][field_index] : k \in 1..Len(features_of(l)) }

(* ------------------------------ accessors ----------------------------- *)

\* accepted_layer(): the current layer, None on the placeholder entry.
accepted_layer == layer_wdgt

\* fields.field(fields.indexFromName(name)) under accepted_field's
\* try/except: None (here NoField) when the lookup raises.
field_or_none(fields, name) ==
  LET i == indexFromName(fields, name)
  IN IF i = 0 THEN NoField ELSE fields[i]

\* accepted_field(): the current field of the field selector.
accepted_field == field_or_none(field_fields, field_cur)

\* accepted_features() asking for more than one checked item.
accepted_features_needs_two ==
  IF Cardinality(feature_checked) > 1
    THEN [none |-> FALSE, items |-> { feature_items[i] : i \in feature_checked }]
    ELSE [none |-> TRUE, items |-> {}]

\* accepted_features(): the checked items, or None when there are none.
accepted_features ==
  IF Cardinality(feature_checked) > 0
    THEN [none |-> FALSE, items |-> { feature_items[i] : i \in feature_checked }]
    ELSE [none |-> TRUE, items |-> {}]

\* generate_feature_model() for the layer and field the accessors return:
\* the sorted renderings of the distinct values, or an exception (calling
\* .fields() or .name() on None).
generate_feature_model(layer, field) ==
  IF layer = NoLayer \/ field = NoField
    THEN [raised |-> TRUE, values |-> << >>]
    ELSE
      LET field_index == indexFromName(LayerData[layer].fields, field.name)
          values == uniqueValues(layer, field_index)
      IN [raised |-> FALSE,
          values |->
            IF field.type = 14
              THEN SortStrs({ IsoDate(v) : v \in values })
              ELSE IF field.type = 10
                THEN SortStrs(values)
                ELSE LET sorted == SortInts(values)
                     IN [i \in 1..Len(sorted) |->
                           IF field.type = 6
                             THEN DecStr(sorted[i]) \o << ".", "0" >>
                             ELSE DecStr(sorted[i])]]

(* ------------------------------ the dialog ---------------------------- *)

\* The layers the layer selector offers besides its placeholder entry
\* (setExceptedLayerList(self.inverted_layer_model)).
offered == project \ inverted_layer_model

\* __init__: compute the exclusion set, build the widgets, open the session.
Construct ==
  /\ result = "New"
  /\ inverted_layer_model' =
       generate_layer_model(get_project_layers, layer_type, geometry_type,
                            layer_matches)
  /\ layer_wdgt' = NoLayer
  /\ field_fields' = << >>
  /\ field_cur' = NoField
  /\ feature_items' = << >>
  /\ feature_checked' = {}
  /\ selection_button' = FALSE
  /\ ok_button' = FALSE
  /\ result' = "Open"
  /\ UNCHANGED config

\* A variant of on_selected_layer whose placeholder branch leaves the OK
\* button as it is.
on_selected_layer_keeps_ok(l) ==
  /\ result = "Open"
  /\ layer_wdgt' = l
  /\ IF l # NoLayer
       THEN /\ ok_button' = TRUE
            /\ field_fields' = generate_field_model(l, field_matches)
       ELSE /\ ok_button' = ok_button
            /\ field_fields' = << >>
  /\ selection_button' = FALSE
  /\ field_cur' = NoField
  /\ feature_items' = << >>
  /\ feature_checked' = {}
  /\ UNCHANGED << config, inverted_layer_model, result >>

\* on_selected_layer computing the exception list anew at each run.
on_selected_layer_refilters(l) ==
  /\ result = "Open"
  /\ layer_wdgt' = l
  /\ inverted_layer_model' =
       generate_layer_model(project, layer_type, geometry_type, layer_matches)
  /\ IF l # NoLayer
       THEN /\ ok_button' = TRUE
            /\ field_fields' = generate_field_model(l, field_matches)
       ELSE /\ ok_button' = FALSE
            /\ field_fields' = << >>
  /\ selection_button' = FALSE
  /\ feature_items' = << >>
  /\ feature_checked' = {}
  /\ field_cur' = NoField
  /\ UNCHANGED << config, result >>

\* on_selected_layer clearing the value list on the placeholder entry only.
on_selected_layer_keeps_values(l) ==
  /\ result = "Open"
  /\ layer_wdgt' = l
  /\ IF l # NoLayer
       THEN /\ ok_button' = TRUE
            /\ field_fields' = generate_field_model(l, field_matches)
            /\ UNCHANGED << feature_items, feature_checked, selection_button >>
       ELSE /\ ok_button' = FALSE
            /\ selection_button' = FALSE
            /\ field_fields' = << >>
            /\ feature_items' = << >>
            /\ feature_checked' = {}
  /\ field_cur' = NoField
  /\ UNCHANGED << config, inverted_layer_model, result >>

\* on_selected_layer, run when the user activates entry l of the layer
\* selector (layerChanged).  setFields() resets the field selector to its
\* empty entry.
on_selected_layer(l) ==
  /\ result = "Open"
  /\ layer_wdgt' = l
  /\ IF l # NoLayer
       THEN /\ ok_button' = TRUE
            /\ field_fields' = generate_field_model(l, field_matches)
            /\ feature_items' = << >>
            /\ feature_checked' = {}
            /\ selection_button' = FALSE
       ELSE /\ ok_button' = FALSE
            /\ selection_button' = FALSE
            /\ field_fields' = << >>
            /\ feature_items' = << >>
            /\ feature_checked' = {}
  /\ field_cur' = NoField
  /\ UNCHANGED << config, inverted_layer_model, result >>

\* on_selected_field whose except branch leaves the bulk buttons alone.
on_selected_field_failure_keeps_buttons(name) ==
  /\ result = "Open"
  /\ field_cur' = name
  /\ feature_checked' = {}
  /\ LET attribute_values ==
           generate_feature_model(layer_wdgt,
                                  field_or_none(field_fields, name))
     IN IF attribute_values.raised
          THEN /\ selection_button' = selection_button
               /\ feature_items' = << >>
          ELSE /\ feature_items' = attribute_values.values
               /\ selection_button' = TRUE
  /\ UNCHANGED << config, inverted_layer_model, layer_wdgt, field_fields,
                  ok_button, result >>

\* on_selected_field, run when the user activates entry name of the field
\* selector (fieldChanged).
on_selected_field(name) ==
  /\ result = "Open"
  /\ field_cur' = name
  /\ feature_checked' = {}
  /\ LET attribute_values ==
           generate_feature_model(layer_wdgt,
                                  field_or_none(field_fields, name))
     IN IF attribute_values.raised
          THEN /\ selection_button' = FALSE
               /\ feature_items' = << >>
          ELSE /\ feature_items' = attribute_values.values
               /\ selection_button' = TRUE
  /\ UNCHANGED << config, inverted_layer_model, layer_wdgt, field_fields,
                  ok_button, result >>

\* The user ticks or unticks item i of the value list.
check_item(i) ==
  /\ result = "Open"
  /\ feature_checked' = IF i \in feature_checked THEN feature_checked \ {i}
                        ELSE feature_checked \cup {i}
  /\ UNCHANGED << config, inverted_layer_model, layer_wdgt, field_fields,
                  field_cur, feature_items, selection_button, ok_button,
                  result >>

\* Yes to all leaving the last item of the list as it is.
on_select_all_but_last ==
  /\ result = "Open"
  /\ selection_button
  /\ feature_checked' =
       (feature_checked \cap {Len(feature_items)})
         \cup (1..(Len(feature_items) - 1))
  /\ UNCHANGED << config, inverted_layer_model, layer_wdgt, field_fields,
                  field_cur, feature_items, selection_button, ok_button,
                  result >>

\* on_select_all: the Yes to all button.
on_select_all ==
  /\ result = "Open"
  /\ selection_button
  /\ feature_checked' = 1..Len(feature_items)
  /\ UNCHANGED << config, inverted_layer_model, layer_wdgt, field_fields,
                  field_cur, feature_items, selection_button, ok_button,
                  result >>

\* on_deselect_all: the No to all button.
on_deselect_all ==
  /\ result = "Open"
  /\ selection_button
  /\ feature_checked' = {}
  /\ UNCHANGED << config, inverted_layer_model, layer_wdgt, field_fields,
                  field_cur, feature_items, selection_button, ok_button,
                  result >>

\* QDialog.accept(): end the session as Accepted.
accept ==
  /\ result' = "Accepted"
  /\ UNCHANGED << config, inverted_layer_model, layer_wdgt, field_fields,
                  field_cur, feature_items, feature_checked,
                  selection_button, ok_button >>

\* QDialog.reject() followed by on_reset_layer(): end the session as
\* Rejected and put both selectors on their first entry.  setCurrentIndex
\* is not a user activation: neither layerChanged nor fieldChanged fires.
reject_and_reset ==
  /\ result' = "Rejected"
  /\ layer_wdgt' = NoLayer
  /\ field_cur' = NoField
  /\ UNCHANGED << config, inverted_layer_model, field_fields, feature_items,
                  feature_checked, selection_button, ok_button >>

\* The OK button (confirm_button.accepted): only an enabled button clicks.
click_ok ==
  /\ result = "Open"
  /\ ok_button
  /\ accept

\* The Cancel button (confirm_button.rejected): reject, then on_reset_layer.
click_cancel ==
  /\ result = "Open"
  /\ reject_and_reset

\* keyPressEvent
keyPressEvent(key) ==
  /\ result = "Open"
  /\ IF key = "Escape" THEN reject_and_reset
     ELSE IF key = "Return" THEN accept
     ELSE UNCHANGED vars

(* ------------------------- the host, mid-session ---------------------- *)

\* Widget state no change in the host touches by itself.
widgets == << layer_wdgt, field_fields, field_cur, feature_items,
              feature_checked, selection_button, ok_button >>

\* The host deletes every feature of vector layer l (an edit, or rows gone
\* from the layer's data source): getFeatures() and uniqueValues() read the
\* layer anew at each call.
host_delete_features(l) ==
  /\ result = "Open"
  /\ l \in project
  /\ Len(features_of(l)) > 0
  /\ emptied' = emptied \cup {l}
  /\ UNCHANGED << project, layer_matches, field_matches, layer_type,
                  geometry_type, inverted_layer_model, widgets, result >>

\* The host adds layer l to the project.  The layer selector shows it unless
\* it is in the exception list handed over at construction; the current
\* entry stays, and no layerChanged is emitted.
host_add_layer(l) ==
  /\ result = "Open"
  /\ l \notin project
  /\ l \notin inverted_layer_model
  /\ project' = project \cup {l}
  /\ UNCHANGED << layer_matches, field_matches, layer_type, geometry_type,
                  emptied, inverted_layer_model, widgets, result >>

\* The host removes from the project a layer l other than the current one.
\* When the selector is left with its placeholder alone it emits
\* layerChanged and on_selected_layer runs on index 0; otherwise no signal
\* connected to the dialog is emitted.
host_remove_layer(l) ==
  /\ result = "Open"
  /\ l \in project
  /\ l # layer_wdgt
  /\ project' = project \ {l}
  /\ UNCHANGED << layer_matches, field_matches, layer_type, geometry_type,
                  emptied, inverted_layer_model, result >>
  /\ IF l \in offered /\ offered \ {l} = {}
       THEN /\ layer_wdgt' = NoLayer
            /\ ok_button' = FALSE
            /\ selection_button' = FALSE
            /\ field_fields' = << >>
            /\ field_cur' = NoField
            /\ feature_items' = << >>
            /\ feature_checked' = {}
       ELSE UNCHANGED widgets

(* ----------------------- signals, slots and calls --------------------- *)

\* on_reset_layer written with setLayer(None) in place of setCurrentIndex(0).
calls_reset_with_setLayer(h) ==
  CASE h = "on_selected_layer" ->
         << "ok_button.setDisabled", "field_wdgt.setFields",
            "feature_wdgt.clear", "selection_button.setDisabled" >>
    [] h = "on_selected_field" ->
         << "feature_wdgt.clear", "feature_wdgt.addItems",
            "selection_button.setDisabled" >>
    [] h = "on_reset_layer" ->
         << "layer_wdgt.setLayer", "field_wdgt.setCurrentIndex" >>
    [] h = "on_select_all" -> << "feature_wdgt.selectAllOptions" >>
    [] h = "on_deselect_all" -> << "feature_wdgt.deselectAllOptions" >>
    [] h = "accept" -> << "QDialog.accept" >>
    [] h = "reject" -> << "QDialog.reject" >>
    [] h = "keyPressEvent.Escape" ->
         << "QDialog.reject", "layer_wdgt.setLayer",
            "field_wdgt.setCurrentIndex" >>
    [] h = "keyPressEvent.Return" -> << "QDialog.accept" >>

\* The calls on widgets that handler h makes, in the order of its code; the
\* methods of the dialog that keyPressEvent calls are part of it.
calls(h) ==
  CASE h = "on_selected_layer" ->
         << "ok_button.setDisabled", "field_wdgt.setFields",
            "feature_wdgt.clear", "selection_button.setDisabled" >>
    [] h = "on_selected_field" ->
         << "feature_wdgt.clear", "feature_wdgt.addItems",
            "selection_button.setDisabled" >>
    [] h = "on_reset_layer" ->
         << "layer_wdgt.setCurrentIndex", "field_wdgt.setCurrentIndex" >>
    [] h = "on_select_all" -> << "feature_wdgt.selectAllOptions" >>
    [] h = "on_deselect_all" -> << "feature_wdgt.deselectAllOptions" >>
    [] h = "accept" -> << "QDialog.accept" >>
    [] h = "reject" -> << "QDialog.reject" >>
    [] h = "keyPressEvent.Escape" ->
         << "QDialog.reject", "layer_wdgt.setCurrentIndex",
            "field_wdgt.setCurrentIndex" >>
    [] h = "keyPressEvent.Return" -> << "QDialog.accept" >>

\* The signal a call on a widget emits before it returns.  The selectors
\* emit layerChanged / fieldChanged from setLayer() / setField() and on
\* activation by the user, not from setCurrentIndex() or setFields().
emitted(call) ==
  CASE call = "layer_wdgt.setLayer" -> "layer_wdgt.layerChanged"
    [] call = "field_wdgt.setField" -> "field_wdgt.fieldChanged"
    [] call = "layer_wdgt.setCurrentIndex" -> "layer_wdgt.currentIndexChanged"
    [] call = "field_wdgt.setCurrentIndex" -> "field_wdgt.currentIndexChanged"
    [] call \in { "feature_wdgt.clear", "feature_wdgt.addItems",
                  "feature_wdgt.selectAllOptions",
                  "feature_wdgt.deselectAllOptions" } ->
         "feature_wdgt.checkedItemsChanged"
    [] call = "QDialog.accept" -> "QDialog.accepted"
    [] call = "QDialog.reject" -> "QDialog.rejected"
    [] OTHER -> "none"

\* The slots __init__ connects to a signal, in connection order.
connections(signal) ==
  CASE signal = "layer_wdgt.layerChanged" -> << "on_selected_layer" >>
    [] signal = "field_wdgt.fieldChanged" -> << "on_selected_field" >>
    [] signal = "confirm_button.accepted" -> << "accept" >>
    [] signal = "selection_button.accepted" -> << "on_select_all" >>
    [] signal = "confirm_button.rejected" -> << "reject", "on_reset_layer" >>
    [] signal = "selection_button.rejected" -> << "on_deselect_all" >>
    [] OTHER -> << >>

\* The event loop is between two events: no handler runs, no slot waits.
Idle == running = << >> /\ pending = << >>

\* The event loop delivers a signal of the user's doing: its first slot
\* starts, the others wait their turn.
Emit(signal) ==
  /\ Idle
  /\ running' = << [h |-> Head(connections(signal)), pc |-> 0] >>
  /\ pending' = Tail(connections(signal))

\* The event loop delivers a key press to keyPressEvent.
KeyEvent(key) ==
  /\ Idle
  /\ running' = << [h |-> "keyPressEvent." \o key, pc |-> 0] >>
  /\ pending' = << >>

\* The innermost running handler makes its next call on a widget; a signal
\* that call emits runs its connected slots at once, inside the call.
Call ==
  /\ running # << >>
  /\ LET top == Len(running)
         f == running[top]
     IN /\ f.pc < Len(calls(f.h))
        /\ LET slots == connections(emitted(calls(f.h)[f.pc + 1]))
               stepped == [running EXCEPT ![top].pc = f.pc + 1]
           IN running' = IF slots = << >>
                           THEN stepped
                           ELSE Append(stepped, [h |-> slots[1], pc |-> 0])
  /\ UNCHANGED << project, layer_matches, field_matches, layer_type,
                  geometry_type, emptied, inverted_layer_model, widgets,
                  result, pending >>

\* The innermost running handler returns.
Return ==
  /\ running # << >>
  /\ running[Len(running)].pc = Len(calls(running[Len(running)].h))
  /\ running' = SubSeq(running, 1, Len(running) - 1)
  /\ UNCHANGED << project, layer_matches, field_matches, layer_type,
                  geometry_type, emptied, inverted_layer_model, widgets,
                  result, pending >>

\* The next slot connected to the signal being delivered starts.
NextSlot ==
  /\ running = << >>
  /\ pending # << >>
  /\ running' = << [h |-> Head(pending), pc |-> 0] >>
  /\ pending' = Tail(pending)
  /\ UNCHANGED << project, layer_matches, field_matches, layer_type,
                  geometry_type, emptied, inverted_layer_model, widgets,
                  result >>

(* --------------------------- specifications --------------------------- *)

\* Sequences of at most n distinct keys of S: the keys() of a mapping.
KeySeqs(S, n) ==
  UNION { { q \in [1..k -> S] : \A i, j \in 1..k : i # j => q[i] # q[j] } :
          k \in 0..n }

\* The object before __init__ runs, for given arguments.
Fresh(p, lm, fm, lt, gt) ==
  /\ project = p
  /\ layer_matches = lm
  /\ field_matches = fm
  /\ layer_type = lt
  /\ geometry_type = gt
  /\ inverted_layer_model = {}
  /\ layer_wdgt = NoLayer
  /\ field_fields = << >>
  /\ field_cur = NoField
  /\ feature_items = << >>
  /\ feature_checked = {}
  /\ selection_button = FALSE
  /\ ok_button = FALSE
  /\ result = "New"
  /\ emptied = {}
  /\ running = << >>
  /\ pending = << >>

\* A session of the dialog over the whole project.
Init ==
  \E lm \in { {}, { <<"a">> } },
     fm \in {FieldsUnset}
            \cup { [none |-> FALSE, keys |-> q] :
                   q \in KeySeqs(FieldKeyPool, MaxFieldKeys) } :
    Fresh(LayerIds, lm, fm, TypeUnset, GeomUnset)

\* Handlers taken whole: no record of the calls they make is kept.
Whole == UNCHANGED << running, pending >>

Next ==
  \/ Construct /\ Whole
  \/ \E l \in offered \cup {NoLayer} : on_selected_layer(l) /\ Whole
  \/ \E i \in 1..Len(field_fields) :
       on_selected_field(field_fields[i].name) /\ Whole
  \/ on_selected_field(NoField) /\ Whole
  \/ \E i \in 1..Len(feature_items) : check_item(i) /\ Whole
  \/ on_select_all /\ Whole
  \/ on_deselect_all /\ Whole
  \/ click_ok /\ Whole
  \/ click_cancel /\ Whole
  \/ keyPressEvent("Escape") /\ Whole
  \/ keyPressEvent("Return") /\ Whole

Spec == Init /\ [][Next]_vars

\* Construction alone, over every project and every filter configuration.
InitLayerModel ==
  \E p \in SUBSET LayerIds,
     lm \in { k \in SUBSET NameKeyPool : Cardinality(k) <= MaxNameKeys },
     lt \in {TypeUnset} \cup LayerTypeTags,
     gt \in {GeomUnset} \cup 0..MaxGeom :
    Fresh(p, lm, FieldsUnset, lt, gt)

NextLayerModel == Construct /\ Whole

SpecLayerModel == InitLayerModel /\ [][NextLayerModel]_vars

\* A session during which the host changes its project and its layers.
InitHost ==
  \E p \in SUBSET LayerIds, lm \in { {}, { <<"a">> } } :
    Fresh(p, lm, FieldsUnset, TypeUnset, GeomUnset)

NextHost ==
  \/ Next
  \/ \E l \in LayerIds : host_delete_features(l) /\ Whole
  \/ \E l \in LayerIds : host_add_layer(l) /\ Whole
  \/ \E l \in LayerIds : host_remove_layer(l) /\ Whole

SpecHost == InitHost /\ [][NextHost]_vars

\* The session with the calls of each handler followed one by one.  The
\* effect of the handlers of an event is taken whole when the event is
\* delivered; running and pending then follow their calls and returns.
NextDispatch ==
  \/ Construct /\ Whole
  \/ \E l \in offered \cup {NoLayer} :
       on_selected_layer(l) /\ Emit("layer_wdgt.layerChanged")
  \/ \E i \in 1..Len(field_fields) :
       on_selected_field(field_fields[i].name) /\ Emit("field_wdgt.fieldChanged")
  \/ on_selected_field(NoField) /\ Emit("field_wdgt.fieldChanged")
  \/ \E i \in 1..Len(feature_items) : check_item(i) /\ Idle /\ Whole
  \/ on_select_all /\ Emit("selection_button.accepted")
  \/ on_deselect_all /\ Emit("selection_button.rejected")
  \/ click_ok /\ Emit("confirm_button.accepted")
  \/ click_cancel /\ Emit("confirm_button.rejected")
  \/ keyPressEvent("Escape") /\ KeyEvent("Escape")
  \/ keyPressEvent("Return") /\ KeyEvent("Return")
  \/ Call
  \/ Return
  \/ NextSlot

SpecDispatch == Init /\ [][NextDispatch]_vars

(* ------------------------------- claims ------------------------------- *)

\* key occurs in name, letter case ignored (stated position by position).
HasKeyIgnoringCase(name, key) ==
  \E i \in 0..Len(name) :
    /\ i + Len(key) <= Len(name)
    /\ \A j \in 1..Len(key) : LowerChar(name[i + j]) = LowerChar(key[j])

\* name and key are the same string, letter case ignored.
SameIgnoringCase(name, key) ==
  /\ Len(name) = Len(key)
  /\ \A j \in 1..Len(key) : LowerChar(name[j]) = LowerChar(key[j])

\* The project layers each supplied filter selects.
TypeMatching ==
  IF layer_type = TypeUnset THEN {}
  ELSE { l \in project :
           /\ LayerData[l].kind = "vector" =>
                SameIgnoringCase(layer_type, <<"v", "e", "c", "t", "o", "r">>)
           /\ LayerData[l].kind = "raster" =>
                SameIgnoringCase(layer_type, <<"r", "a", "s", "t", "e", "r">>) }

GeometryMatching ==
  IF geometry_type = GeomUnset THEN {}
  ELSE { l \in project : LayerData[l].kind = "vector"
                         /\ LayerData[l].wkb = geometry_type }

NameMatching ==
  { l \in project :
      \E key \in layer_matches : HasKeyIgnoringCase(LayerData[l].name, key) }

AllFiltersDefault ==
  layer_matches = {} /\ layer_type = TypeUnset /\ geometry_type = GeomUnset

\* The names in the field selector, the fields of a layer, the supported types.
SelectorNames == { field_fields[i].name : i \in 1..Len(field_fields) }

FieldsOf(l) ==
  { LayerData[l].fields[i] : i \in 1..Len(LayerData[l].fields) }

IsSupported(f) == f.type \in {2, 4, 10, 14, 6}

\* C1: while the session is open, OK is enabled exactly when the layer
\* selector is on a real layer (not on its placeholder entry).
C1_OkIffLayerChosen ==
  result = "Open" => (ok_button <=> layer_wdgt # NoLayer)

C1_Witness ==
  result = "Open" /\ layer_wdgt # NoLayer /\ ok_button /\ field_cur # NoField

\* C2: a Return key press ends the session as Accepted only in a state in
\* which the OK button could be pressed (OK enabled), as a click on OK does.
C2_ReturnIsConfirm ==
  [][keyPressEvent("Return") => ok_button]_vars

\* C3: once the session ended as Rejected (Cancel or Escape), both selectors
\* are unset, the value list is empty and the three accessors return none.
C3_RejectedIsClean ==
  result = "Rejected" =>
    /\ layer_wdgt = NoLayer
    /\ field_cur = NoField
    /\ feature_items = << >>
    /\ accepted_layer = NoLayer
    /\ accepted_field = NoField
    /\ accepted_features.none

\* C4: with every filter at its default, the constructed dialog excludes no
\* layer: every project layer is offered.
C4_DefaultsExcludeNothing ==
  (result # "New" /\ AllFiltersDefault) =>
    (inverted_layer_model = {} /\ offered = project)

C4_Witness ==
  /\ result = "Open"
  /\ AllFiltersDefault
  /\ project = LayerIds
  /\ offered = LayerIds

\* C5: with at least one filter supplied, the exclusion set is the project
\* layers minus the union of the layers each supplied filter selects.
C5_ExclusionIsComplementOfUnion ==
  (result # "New" /\ ~AllFiltersDefault) =>
    inverted_layer_model =
      project \ (TypeMatching \cup GeometryMatching \cup NameMatching)

\* C6: with a layer-type and a geometry-type filter and no name filter, the
\* layers offered are the union of the layers either filter selects.
C6_TypeAndGeometryUnion ==
  (result # "New" /\ layer_type # TypeUnset /\ geometry_type # GeomUnset
     /\ layer_matches = {}) =>
    offered = TypeMatching \cup GeometryMatching

\* C7: with only a name filter supplied, the layers offered at construction
\* are exactly the project layers whose name contains some key, case ignored.
C7_NameFilterOnly ==
  (result # "New" /\ layer_matches # {} /\ layer_type = TypeUnset
     /\ geometry_type = GeomUnset) =>
    offered = NameMatching

C7_Witness ==
  /\ result = "Open"
  /\ layer_matches = { <<"B">> }
  /\ layer_type = TypeUnset
  /\ geometry_type = GeomUnset
  /\ project = LayerIds
  /\ offered = {"L1", "L2", "L3"}

\* C8: with no field filter, after a vector layer is selected the field
\* selector holds exactly that layer's fields of a supported type.
C8_AllSupportedFields ==
  (result = "Open" /\ field_matches.none /\ layer_wdgt # NoLayer
     /\ LayerData[layer_wdgt].kind = "vector") =>
    SelectorNames =
      { f.name : f \in { g \in FieldsOf(layer_wdgt) : IsSupported(g) } }

C10_NoUnsupportedField ==
  /\ \A i \in 1..Len(field_fields) : field_fields[i].type \in {2, 6, 10, 14}
  /\ layer_wdgt # NoLayer =>
       /\ \A f \in FieldsOf(layer_wdgt) :
            ~IsSupported(f) => f.name \notin SelectorNames
       /\ LayerData[layer_wdgt].kind = "raster" => field_fields = << >>

C10_Witness ==
  /\ result = "Open"
  /\ layer_wdgt = "L2"
  /\ field_matches = [none |-> FALSE, keys |-> << <<"t", "s">> >>]
  /\ field_fields = << >>

\* C11: the bulk controls are enabled only over a non-empty value list: a
\* field selection that yields no value leaves them disabled.
C11_BulkOnlyWithValues ==
  selection_button => feature_items # << >>

\* C15: once the dialog is constructed its exclusion set never changes,
\* whatever the handlers run and whatever layers the host adds or removes.
C15_ExclusionFixed ==
  [][result # "New" => inverted_layer_model' = inverted_layer_model]_vars

\* A layer the filters would exclude was added mid-session and is offered.
C15_Witness ==
  /\ result = "Open"
  /\ layer_matches # {}
  /\ layer_wdgt \in project
  /\ inverted_layer_model #
       generate_layer_model(project, layer_type, geometry_type, layer_matches)

FieldHandlerStep ==
  \/ \E i \in 1..Len(field_fields) : on_selected_field(field_fields[i].name)
  \/ on_selected_field(NoField)

\* C12: a run of the field-changed handler that fails (no layer, or no
\* field, is selected) leaves the session open, the value list empty and the
\* bulk controls disabled, and does not touch the layer selection, the
\* field list, the field the user activated or the confirm button.
C12_FailureLeavesListEmpty ==
  [][(FieldHandlerStep /\ (layer_wdgt = NoLayer \/ field_cur' = NoField))
       => /\ result' = "Open"
          /\ feature_items' = << >>
          /\ feature_checked' = {}
          /\ ~selection_button'
          /\ layer_wdgt' = layer_wdgt
          /\ field_fields' = field_fields
          /\ ok_button' = ok_button]_vars

\* The handler has run on the empty entry of the field selector of a layer.
C12_Witness ==
  /\ result = "Open"
  /\ running # << >>
  /\ running[1].h = "on_selected_field"
  /\ layer_wdgt # NoLayer
  /\ field_cur = NoField
  /\ feature_items = << >>
  /\ ~selection_button
  /\ ok_button

\* The values of the current field over the features of the current layer.
CurrentIndex == indexFromName(LayerData[layer_wdgt].fields, field_cur)

CurrentType == LayerData[layer_wdgt].fields[CurrentIndex].type

CurrentValues ==
  { features_of(layer_wdgt)[k][CurrentIndex] :
      k \in 1..Len(features_of(layer_wdgt)) }

\* The entry of the value list that shows value v.
Rendering(v) ==
  CASE CurrentType = 14 -> IsoDate(v)
    [] CurrentType = 10 -> v
    [] CurrentType = 6 -> DecStr(v) \o << ".", "0" >>
    [] OTHER -> DecStr(v)

\* a < b on the values of the current field: dates by year, month and day,
\* strings by code point, numbers by magnitude.
Below(a, b) ==
  CASE CurrentType = 14 ->
         \/ a[1] < b[1]
         \/ a[1] = b[1] /\ a[2] < b[2]
         \/ a[1] = b[1] /\ a[2] = b[2] /\ a[3] < b[3]
    [] CurrentType = 10 -> StrLess(a, b)
    [] OTHER -> a < b

FieldSelected ==
  /\ result # "New"
  /\ layer_wdgt # NoLayer
  /\ field_cur # NoField

\* C13: after a successful field selection the value list holds one entry
\* per distinct value of the field, no entry twice, and the entry of a
\* precedes the entry of b whenever a < b.
C13_DistinctAscending ==
  FieldSelected =>
    /\ Len(feature_items) = Cardinality(CurrentValues)
    /\ \A v \in CurrentValues :
         \E i \in 1..Len(feature_items) : feature_items[i] = Rendering(v)
    /\ \A i, j \in 1..Len(feature_items) :
         i # j => feature_items[i] # feature_items[j]
    /\ \A a, b \in CurrentValues :
         Below(a, b) =>
           \A i, j \in 1..Len(feature_items) :
             (feature_items[i] = Rendering(a) /\ feature_items[j] = Rendering(b))
               => i < j

\* Values 10 and 9: 9 comes first, though "10" sorts before "9" as text.
C13_Witness ==
  /\ result = "Open"
  /\ layer_wdgt = "L1"
  /\ field_cur = << "i", "d" >>
  /\ feature_items = << << "9" >>, << "1", "0" >> >>

\* C14: accepted_features() is none exactly when nothing is checked and
\* otherwise the checked values; accepted_layer() is none exactly on the
\* placeholder entry and otherwise the selected layer; accepted_field() is
\* none when no field is selected and otherwise the selected field.
C14_Accessors ==
  /\ accepted_features.none <=> feature_checked = {}
  /\ ~accepted_features.none =>
       /\ \A i \in feature_checked : feature_items[i] \in accepted_features.items
       /\ \A v \in accepted_features.items :
            \E i \in feature_checked : feature_items[i] = v
  /\ accepted_layer = NoLayer <=> layer_wdgt = NoLayer
  /\ accepted_layer # NoLayer => accepted_layer = layer_wdgt
  /\ field_cur = NoField => accepted_field = NoField
  /\ field_cur \in SelectorNames =>
       /\ accepted_field # NoField
       /\ accepted_field.name = field_cur
       /\ accepted_field \in FieldsOf(layer_wdgt)

\* One value of a field of a layer is checked, and is what is returned.
C14_Witness ==
  /\ result = "Accepted"
  /\ accepted_layer = "L1"
  /\ accepted_field = [name |-> << "i", "d" >>, type |-> 2]
  /\ feature_checked = {1}
  /\ accepted_features = [none |-> FALSE, items |-> { << "9" >> }]

\* Nothing is listed, nothing is checked, the bulk controls are disabled.
Cleared ==
  /\ feature_items = << >>
  /\ feature_checked = {}
  /\ ~selection_button

\* C16: every layer-changed event leaves the value list empty, nothing
\* checked and the bulk controls disabled, and only a field selection that
\* succeeds ends that.
C16_LayerChangeClears ==
  [][/\ (\E l \in LayerIds \cup {NoLayer} : on_selected_layer(l)) => Cleared'
     /\ (Cleared /\ ~Cleared') =>
          /\ FieldHandlerStep
          /\ layer_wdgt # NoLayer
          /\ field_cur' # NoField]_vars

\* The layer-changed handler runs on a layer, and the list is cleared.
C16_Witness ==
  /\ result = "Open"
  /\ running # << >>
  /\ running[1].h = "on_selected_layer"
  /\ layer_wdgt = "L2"
  /\ Cleared

\* C18: Yes to all checks the whole value list and No to all unchecks it;
\* both leave the layer, the field, the field list, the value list and the
\* confirm button as they are.
C18_BulkButtons ==
  [][/\ on_select_all =>
          /\ \A i \in 1..Len(feature_items) : i \in feature_checked'
          /\ accepted_features'.items =
               { feature_items[i] : i \in 1..Len(feature_items) }
          /\ feature_items # << >> => ~accepted_features'.none
     /\ on_deselect_all =>
          /\ feature_checked' = {}
          /\ accepted_features'.none
     /\ (on_select_all \/ on_deselect_all) =>
          /\ layer_wdgt' = layer_wdgt
          /\ field_cur' = field_cur
          /\ field_fields' = field_fields
          /\ feature_items' = feature_items
          /\ ok_button' = ok_button]_vars

\* Yes to all has run over a list of two values, one of them checked before
\* or not: both are checked.
C18_Witness ==
  /\ result = "Open"
  /\ running # << >>
  /\ running[1].h = "on_select_all"
  /\ Len(feature_items) = 2
  /\ feature_checked = {1, 2}
  /\ accepted_features.items = { feature_items[1], feature_items[2] }

\* C19: in every state of a session the checked values are among the
\* listed ones, and values are listed only while a layer and one of its
\* fields are selected, and are values of that field in that layer.
C19_ValuesOfSelection ==
  result # "New" =>
    /\ feature_checked \subseteq 1..Len(feature_items)
    /\ feature_items # << >> =>
         /\ layer_wdgt # NoLayer
         /\ field_cur # NoField
         /\ \A i \in 1..Len(feature_items) :
              \E v \in CurrentValues : feature_items[i] = Rendering(v)

====
